---- MODULE Spec2Model ----
(***************************************************************************)
(* Summary rollup pipeline of the daily planner: the pending-backfill      *)
(* scanner, the weekly / monthly / yearly generators, forceSummary-        *)
(* Generation, and the SQLite-backed store they read and write.            *)
(*                                                                         *)
(* A JS Date holding a local calendar day is modelled by its day number    *)
(* (days since 2020-01-01, a Wednesday).  A date string is modelled by the *)
(* tuple of its numeric fields: <<y, m, d>> is "YYYY-MM-DD", <<y, m>> is   *)
(* "YYYY-MM", <<y>> is "YYYY", and <<>> is a string matching none of these.*)
(***************************************************************************)
EXTENDS Integers, Sequences, FiniteSets, TLC

VARIABLES
    today,      \* the device clock: local calendar day (day number)
    tz,         \* local day shift of a UTC-midnight instant: -1 (offset < 0) or 0
    entries,    \* table daily_entries: the set of dates that have a row
    summaries,  \* table summaries: rows [id, type, start_date, end_date]
    nextId,     \* AUTOINCREMENT counter of table summaries
    proc,       \* per caller: position and locals of its async call chain
    hist,       \* per caller: record of what its current invocation has done
    log,        \* record across invocations: undisturbed passes, force-saved ids
    env,        \* budgets used: environment operations, failures, passes, forces
    calc,       \* the last call of a pure function: its name, arguments, result
    db,         \* the DatabaseService object and the database behind its connection
    svc         \* per caller: position of its initialize and saveDailyEntry calls

vars == <<today, tz, entries, summaries, nextId, proc, hist, log, env, calc, db, svc>>

-----------------------------------------------------------------------------
(* Calendar arithmetic of the JS Date object *)

IsLeap(y) == (y % 4 = 0 /\ y % 100 # 0) \/ (y % 400 = 0)

DaysInMonth(y, m) ==
    IF m = 2 THEN (IF IsLeap(y) THEN 29 ELSE 28)
    ELSE IF m \in {4, 6, 9, 11} THEN 30 ELSE 31

\* leap days of the years before y
LeapDaysBefore(y) == ((y - 1) \div 4) - ((y - 1) \div 100) + ((y - 1) \div 400)

\* days from 2020-01-01 to January 1 of y
DaysBeforeYear(y) == 365 * (y - 2020) + LeapDaysBefore(y) - LeapDaysBefore(2020)

DaysBeforeMonth(y, m) ==
    <<0, 31, 59, 90, 120, 151, 181, 212, 243, 273, 304, 334>>[m]
        + (IF m > 2 /\ IsLeap(y) THEN 1 ELSE 0)

\* the Date constructor reads a year of 0 .. 99 as 1900 .. 1999
FullYear(y) == IF y \in 0..99 THEN 1900 + y ELSE y

DaysFromCivil(y, m0, d) ==
    DaysBeforeYear(y + (m0 \div 12)) + DaysBeforeMonth(y + (m0 \div 12), (m0 % 12) + 1)
        + d - 1

\* new Date(year, monthIndex, day): month and day overflow are normalised
NewDate(y, m0, d) == DaysFromCivil(FullYear(y), m0, d)

\* the year day number n falls in
YearOfDay(n) ==
    CHOOSE y \in (IF n >= 0 THEN (2020 + (n \div 366) - 1) .. (2020 + (n \div 365) + 1)
                  ELSE (2020 + (n \div 365) - 1) .. (2020 + (n \div 366) + 1)) :
        DaysBeforeYear(y) <= n /\ n < DaysBeforeYear(y + 1)

\* the month (1-based) in which the r-th day (from 0) of year y falls
MonthOfYearDay(y, r) ==
    CHOOSE m \in 1..12 :
        DaysBeforeMonth(y, m) <= r /\ r < DaysBeforeMonth(y, m) + DaysInMonth(y, m)

CivilInYear(y, r) ==
    <<y, MonthOfYearDay(y, r), r - DaysBeforeMonth(y, MonthOfYearDay(y, r)) + 1>>

\* year, month (1-based) and day of month of day number n
CivilFromDays(n) == CivilInYear(YearOfDay(n), n - DaysBeforeYear(YearOfDay(n)))

\* the days the model's dates fall on: 2023-01-01 .. 2025-12-31
CalendarDays == DaysBeforeYear(2023) .. (DaysBeforeYear(2026) - 1)

Calendar == [n \in CalendarDays |-> CivilFromDays(n)]

\* the calendar fields of day number n
Civil(n) == IF n \in CalendarDays THEN Calendar[n] ELSE CivilFromDays(n)

GetFullYear(n) == Civil(n)[1]

\* getMonth() is zero-based
GetMonth(n) == Civil(n)[2] - 1

GetDate(n) == Civil(n)[3]

\* getDay(): 0 = Sunday .. 6 = Saturday
GetDay(n) == (n + 3) % 7

\* date.setDate(day)
SetDate(date, day) == NewDate(GetFullYear(date), GetMonth(date), day)

\* date.setMonth(monthIndex)
SetMonth(date, m0) == NewDate(GetFullYear(date), m0, GetDate(date))

-----------------------------------------------------------------------------
(* Date strings *)

\* the string matches /^(\d{4})-(\d{2})-(\d{2})$/
MatchesLocalISO(s) == Len(s) = 3

formatLocalDateISO(n) == <<GetFullYear(n), GetMonth(n) + 1, GetDate(n)>>

formatDateISO(n) == formatLocalDateISO(n)

\* variant: the pattern is matched, the constructed date is not re-checked
ParseOkPatternOnly(s) == MatchesLocalISO(s)

\* parseLocalISODate throws unless this holds
ParseOk(s) ==
    /\ MatchesLocalISO(s)
    /\ LET date == NewDate(s[1], s[2] - 1, s[3])
       IN  /\ GetFullYear(date) = s[1]
           /\ GetMonth(date) = s[2] - 1
           /\ GetDate(date) = s[3]

parseLocalISODate(s) == NewDate(s[1], s[2] - 1, s[3])

\* comparison of two YYYY-MM-DD strings (SQLite TEXT, JS string comparison)
StrLeq(a, b) ==
    \/ a[1] < b[1]
    \/ a[1] = b[1] /\ a[2] < b[2]
    \/ a[1] = b[1] /\ a[2] = b[2] /\ a[3] <= b[3]

\* new Date("YYYY-MM-DD"): UTC midnight of that day, read back by local getters
NewDateFromString(s, shift) == NewDate(s[1], s[2] - 1, s[3]) + shift

-----------------------------------------------------------------------------
(* Date strings as text: a sequence of characters.  The tuple <<y, m, d>>   *)
(* above is the text of a string that matches the pattern, read field by   *)
(* field.                                                                  *)

DigitChars == {"0", "1", "2", "3", "4", "5", "6", "7", "8", "9"}

DigitChar(v) == <<"0", "1", "2", "3", "4", "5", "6", "7", "8", "9">>[v + 1]

DigitValue(c) == CHOOSE v \in 0..9 : DigitChar(v) = c

\* String.prototype.trim
RECURSIVE TrimStart(_)
TrimStart(t) == IF t # <<>> /\ Head(t) = " " THEN TrimStart(Tail(t)) ELSE t

RECURSIVE TrimEnd(_)
TrimEnd(t) ==
    IF t # <<>> /\ t[Len(t)] = " " THEN TrimEnd(SubSeq(t, 1, Len(t) - 1)) ELSE t

Trim(t) == TrimEnd(TrimStart(t))

\* LOCAL_ISO_DATE_RE.exec(trimmed) is not null
MatchesDateRE(t) ==
    /\ Len(t) = 10
    /\ t[5] = "-" /\ t[8] = "-"
    /\ \A k \in {1, 2, 3, 4, 6, 7, 9, 10} : t[k] \in DigitChars

\* Number(match[k]) of a run of digits
RECURSIVE NumberOf(_)
NumberOf(ds) ==
    IF ds = <<>> THEN 0
    ELSE 10 * NumberOf(SubSeq(ds, 1, Len(ds) - 1)) + DigitValue(ds[Len(ds)])

\* year, month, day of a text that matches the pattern
DateFields(t) ==
    <<NumberOf(SubSeq(t, 1, 4)), NumberOf(SubSeq(t, 6, 7)), NumberOf(SubSeq(t, 9, 10))>>

\* parseLocalISODate(dateString) does not throw
ParsesText(dateString) ==
    /\ MatchesDateRE(Trim(dateString))
    /\ ParseOk(DateFields(Trim(dateString)))

\* the Date parseLocalISODate(dateString) returns
parseLocalISODateText(dateString) == parseLocalISODate(DateFields(Trim(dateString)))

\* String(n), n >= 0
RECURSIVE DigitsOf(_)
DigitsOf(n) ==
    IF n < 10 THEN <<DigitChar(n)>> ELSE DigitsOf(n \div 10) \o <<DigitChar(n % 10)>>

\* padStart(2, '0')
PadStart2(t) == IF Len(t) < 2 THEN <<"0">> \o t ELSE t

\* `${year}-${month}-${day}` of formatLocalDateISO
formatLocalDateISOText(date) ==
    DigitsOf(GetFullYear(date)) \o <<"-">> \o PadStart2(DigitsOf(GetMonth(date) + 1))
        \o <<"-">> \o PadStart2(DigitsOf(GetDate(date)))

\* parse, then format what was parsed
ParseThenFormat(dateString) ==
    IF ParsesText(dateString)
    THEN [ok |-> TRUE,
          formatted |-> formatLocalDateISOText(parseLocalISODateText(dateString))]
    ELSE [ok |-> FALSE, formatted |-> <<>>]

-----------------------------------------------------------------------------
(* The store (DatabaseService) *)

WeeklyRows(S) == {r \in S : r.type = "weekly"}

\* SELECT * FROM summaries WHERE type = ?
getSummaries(S, type) == {r \in S : r.type = type}

\* SELECT * FROM daily_entries WHERE date >= ? AND date <= ?
getDailyEntries(E, startDate, endDate) ==
    {d \in E : StrLeq(startDate, d) /\ StrLeq(d, endDate)}

\* weekEndDate.setDate(weekEndDate.getDate() + 6)
WeekEndDate(weekEndDate) == SetDate(weekEndDate, GetDate(weekEndDate) + 6)

getEntriesForWeeklySummary(E, weekStartDate, shift) ==
    getDailyEntries(E, weekStartDate,
        formatLocalDateISO(WeekEndDate(NewDateFromString(weekStartDate, shift))))

\* monthEndDate.setMonth(monthEndDate.getMonth() + 1)
NextMonth(monthEndDate) == SetMonth(monthEndDate, GetMonth(monthEndDate) + 1)

\* the upper bound getWeeklySummariesForMonth hands to the query
MonthEndDateStr(monthStartDate, shift) ==
    formatLocalDateISO(SetDate(NextMonth(NewDateFromString(monthStartDate, shift)), 0))

\* variant: a query for the weeks that overlap the month
getWeeklySummariesTouchingMonth(S, monthStartDate, shift) ==
    {r \in WeeklyRows(S) :
        /\ StrLeq(monthStartDate, r.end_date)
        /\ StrLeq(r.start_date, MonthEndDateStr(monthStartDate, shift))}

getWeeklySummariesForMonth(S, monthStartDate, shift) ==
    {r \in WeeklyRows(S) :
        /\ StrLeq(monthStartDate, r.start_date)
        /\ StrLeq(r.end_date, MonthEndDateStr(monthStartDate, shift))}

\* variant: an insert that a (type, start_date) uniqueness constraint turns away
saveSummaryUnlessPresent(S, id, row) ==
    IF \E r \in S : r.type = row.type /\ r.start_date = row.start_date
    THEN S
    ELSE S \cup {[id |-> id, type |-> row.type,
                  start_date |-> row.start_date, end_date |-> row.end_date]}

\* variant: an insert that replaces the stored rows of the same type
saveSummaryReplacingType(S, id, row) ==
    {r \in S : r.type # row.type}
        \cup {[id |-> id, type |-> row.type,
                start_date |-> row.start_date, end_date |-> row.end_date]}

\* INSERT INTO summaries ...: always a new row, id = lastInsertRowId
saveSummary(S, id, row) ==
    S \cup {[id |-> id, type |-> row.type,
             start_date |-> row.start_date, end_date |-> row.end_date]}

deleteSummary(S, id) == {r \in S : r.id # id}

\* INSERT ... ON CONFLICT(date) DO UPDATE: one row per date
saveDailyEntry(E, date) == E \cup {date}

deleteEntry(E, date) == E \ {date}

-----------------------------------------------------------------------------
(* Scanner constants and candidate periods *)

WeeklyLookback == 4
MonthlyLookback == 3
YearlyLookback == 2

WeeklyThreshold == 3
MonthlyThreshold == 2
YearlyThreshold == 6

Threshold(type) ==
    IF type = "weekly" THEN WeeklyThreshold
    ELSE IF type = "monthly" THEN MonthlyThreshold ELSE YearlyThreshold

\* variant: a gate that lets one source row fewer through
MeetsThresholdOffByOne(type, n) == n >= Threshold(type) - 1

\* the quality gate of the three scanners
MeetsThreshold(type, n) == n >= Threshold(type)

\* new Date(now.getFullYear(), now.getMonth(), now.getDate())
TodayLocal(now) == NewDate(GetFullYear(now), GetMonth(now), GetDate(now))

\* variant: the pivot is today
OneWeekAgoLocalNoStep(todayLocal) == todayLocal

OneWeekAgoLocal(todayLocal) == SetDate(todayLocal, GetDate(todayLocal) - 7)

Pivot(oneWeekAgoLocal, i) == SetDate(oneWeekAgoLocal, GetDate(oneWeekAgoLocal) - i * 7)

\* variant: Sunday is treated like the other days
MondayOffsetSundayAhead(dow) == 1 - dow

MondayOffset(dow) == IF dow = 0 THEN -6 ELSE 1 - dow

Monday(pivot) == SetDate(pivot, GetDate(pivot) + MondayOffset(GetDay(pivot)))

\* SummaryService.getWeekStartDate(date)
getWeekStartDate(date) == formatDateISO(Monday(TodayLocal(date)))

\* the i-th weekly candidate, i = 0 .. 3
WeeklyCandidate(now, i) ==
    formatDateISO(Monday(Pivot(OneWeekAgoLocal(TodayLocal(now)), i)))

\* the i-th monthly candidate, i = 1 .. 3
MonthlyCandidate(now, i) ==
    formatDateISO(NewDate(GetFullYear(now), GetMonth(now) - i, 1))

\* the k-th yearly candidate year, k = 0 .. 1
YearlyCandidate(now, k) == GetFullYear(now) - YearlyLookback + k

\* `${year}-01-01`
YearStartStr(year) == <<year, 1, 1>>

\* formatDateISO(new Date(year, 12, 0))
YearEndStr(year) == formatDateISO(NewDate(year, 12, 0))

\* monthlySummaries.filter(s => s.start_date >= yearStart && s.end_date <= yearEnd)
YearMonthlySummaries(monthlies, year) ==
    {r \in monthlies :
        /\ StrLeq(YearStartStr(year), r.start_date)
        /\ StrLeq(r.end_date, YearEndStr(year))}

\* variant: a scanner that skips the existence check
AlreadyExistsNever(existingStarts, key) == FALSE

\* existingStarts.has(key)
AlreadyExists(existingStarts, key) == key \in existingStarts

-----------------------------------------------------------------------------
(* Callers, their locals and the record of what an invocation has done *)

\* the two screens that call the service
Callers == {"home", "screen"}

Types == {"weekly", "monthly", "yearly"}

\* pc: the store call a caller is suspended on
\*   "snap"        getSummaries(type) of a scanner (its existing rows)
\*   "y_monthlies" getSummaries('monthly') of the yearly scanner
\*   "count"       the source fetch of a scanner's quality gate
\*   "g_fetch"     the source fetch of a generator
\*   "g_save"      saveSummary of a generator
IdleLocal ==
    [pc |-> "idle", call |-> "none", type |-> "none", now |-> 0,
     existingStarts |-> {}, monthlySummaries |-> {}, i |-> 0,
     key |-> <<>>, end |-> <<>>]

NoGen ==
    [type |-> "none", key |-> <<>>, fetches |-> 0, fetched |-> -1,
     aggregated |-> FALSE, saveCalls |-> 0, failed |-> FALSE, result |-> "none"]

NoForce == [type |-> "none", input |-> <<>>, storeCalls |-> 0, result |-> "none"]

IdleHist ==
    [call |-> "none", scans |-> {}, examined |-> {}, gates |-> {},
     saveCalls |-> 0, failedIn |-> "none", failedPc |-> "none", ended |-> FALSE,
     undisturbed |-> FALSE, cleanBefore |-> 0, gen |-> NoGen, force |-> NoForce]

StoreCallPcs == {"snap", "y_monthlies", "count", "g_fetch", "g_save"}

-----------------------------------------------------------------------------
(* Control flow between two store calls.  A frame f = [l, h] is a caller's  *)
(* locals and its record; each operator runs the synchronous code up to    *)
(* the next awaited store call.                                            *)

\* checkAndGeneratePendingSummaries resolves
EndPass(f) ==
    [l |-> IdleLocal, h |-> [f.h EXCEPT !.ended = TRUE]]

\* an exception leaves the async call chain: no scanner, generator or facade
\* method catches it
Propagate(f) ==
    [l |-> IdleLocal,
     h |-> [f.h EXCEPT !.ended = TRUE,
                       !.failedIn = IF f.l.call = "scan" THEN f.l.type ELSE "none",
                       !.failedPc = f.l.pc,
                       !.gen = IF f.h.gen.result = "pending"
                               THEN [f.h.gen EXCEPT !.result = "error"]
                               ELSE f.h.gen,
                       !.force = IF f.l.call = "force"
                                 THEN [f.h.force EXCEPT !.result = "error"]
                                 ELSE f.h.force]]

\* variant: the failed call is issued again
OnStoreErrorRetry(f) == f

\* what a failed store call does to its caller
OnStoreError(f) == Propagate(f)

\* generateWeeklySummary / generateMonthlySummary / generateYearlySummary is
\* called and issues its source fetch
\* (generateWeeklySummary first canonicalises its argument, which throws on an
\* invalid date)
EnterGenerator(f, type, key) ==
    LET h1 == [f.h EXCEPT !.gen = [NoGen EXCEPT !.type = type, !.key = key,
                                                !.result = "pending"]]
    IN  IF type = "weekly" /\ ~ParseOk(key)
        THEN Propagate([l |-> f.l, h |-> h1])
        ELSE [l |-> [f.l EXCEPT !.pc = "g_fetch", !.type = type, !.end = <<>>,
                                !.key = IF type = "weekly"
                                        THEN formatDateISO(parseLocalISODate(key))
                                        ELSE key],
              h |-> h1]

Examine(f, type, key) ==
    [l |-> f.l, h |-> [f.h EXCEPT !.examined = @ \cup {<<type, key>>}]]

Gate(f, type, key, n, called) ==
    [l |-> f.l,
     h |-> [f.h EXCEPT !.gates = @ \cup {[type |-> type, key |-> key, count |-> n,
                                           called |-> called]}]]

\* generatePendingYearlySummaries: candidate year of the loop, n monthly
\* summaries of that year in the snapshot
RECURSIVE YearlyLoop(_, _)
YearlyStep(f, k, year, n) ==
    IF AlreadyExists(f.l.existingStarts, YearStartStr(year))
    THEN YearlyLoop(f, k + 1)
    ELSE IF MeetsThreshold("yearly", n)
         THEN EnterGenerator(Gate(f, "yearly", YearStartStr(year), n, TRUE),
                             "yearly", YearStartStr(year))
         ELSE YearlyLoop(Gate(f, "yearly", YearStartStr(year), n, FALSE), k + 1)

YearlyCount(f, year) ==
    Cardinality(YearMonthlySummaries(f.l.monthlySummaries, year))

YearlyExamine(f, k, year) ==
    YearlyStep(Examine([f EXCEPT !.l.i = k], "yearly", YearStartStr(year)),
               k, year, YearlyCount(f, year))

\* generatePendingYearlySummaries, the loop from candidate k on
YearlyLoop(f, k) ==
    IF k >= YearlyLookback THEN EndPass(f)
    ELSE YearlyExamine(f, k, YearlyCandidate(f.l.now, k))

\* a scanner is called: it reads the clock and issues getSummaries(type)
StartScan(f, type) ==
    [l |-> [IdleLocal EXCEPT !.pc = "snap", !.call = "scan", !.type = type,
                             !.now = today],
     h |-> [f.h EXCEPT !.scans = @ \cup {type}]]

\* the scanner suspends on the gate's source fetch for candidate i
AwaitGate(f, i, key) ==
    [l |-> [f.l EXCEPT !.pc = "count", !.i = i, !.key = key], h |-> f.h]

\* generatePendingMonthlySummaries, the loop from candidate i on
RECURSIVE MonthlyLoop(_, _)
MonthlyStep(f, i, key) ==
    IF AlreadyExists(f.l.existingStarts, key)
    THEN MonthlyLoop(Examine(f, "monthly", key), i + 1)
    ELSE AwaitGate(Examine(f, "monthly", key), i, key)

MonthlyLoop(f, i) ==
    IF i > MonthlyLookback THEN StartScan(f, "yearly")
    ELSE MonthlyStep(f, i, MonthlyCandidate(f.l.now, i))

\* generatePendingWeeklySummaries, the loop from candidate i on
RECURSIVE WeeklyLoop(_, _)
WeeklyStep(f, i, key) ==
    IF AlreadyExists(f.l.existingStarts, key)
    THEN WeeklyLoop(Examine(f, "weekly", key), i + 1)
    ELSE AwaitGate(Examine(f, "weekly", key), i, key)

WeeklyLoop(f, i) ==
    IF i >= WeeklyLookback THEN StartScan(f, "monthly")
    ELSE WeeklyStep(f, i, WeeklyCandidate(f.l.now, i))

\* variant: the loop index is advanced twice
ResumeSkippingNext(f) ==
    IF f.l.call = "force"
    THEN [l |-> IdleLocal,
          h |-> [f.h EXCEPT !.ended = TRUE, !.force.result = f.h.gen.result]]
    ELSE IF f.l.type = "weekly" THEN WeeklyLoop(f, f.l.i + 2)
    ELSE IF f.l.type = "monthly" THEN MonthlyLoop(f, f.l.i + 2)
    ELSE YearlyLoop(f, f.l.i + 2)

\* a generator returns (null or the saved Summary) to its caller
Resume(f) ==
    IF f.l.call = "force"
    THEN [l |-> IdleLocal,
          h |-> [f.h EXCEPT !.ended = TRUE, !.force.result = f.h.gen.result]]
    ELSE IF f.l.type = "weekly" THEN WeeklyLoop(f, f.l.i + 1)
    ELSE IF f.l.type = "monthly" THEN MonthlyLoop(f, f.l.i + 1)
    ELSE YearlyLoop(f, f.l.i + 1)

-----------------------------------------------------------------------------
(* Generators *)

\* variant: a generator without the empty-source guard
SourcesEmptyNever(rows) == FALSE

\* entries.length === 0 / weeklySummaries.length === 0 / ...length === 0
SourcesEmpty(rows) == rows = {}

\* the source rows a generator fetches
GeneratorSources(type, key) ==
    IF type = "weekly" THEN getEntriesForWeeklySummary(entries, key, tz)
    ELSE IF type = "monthly" THEN getWeeklySummariesForMonth(summaries, key, tz)
    ELSE YearMonthlySummaries(getSummaries(summaries, "monthly"), key[1])

\* variant: the day field is set without calendar normalisation
GeneratorEndDayFieldOnly(type, key) ==
    IF type = "weekly" THEN <<key[1], key[2], key[3] + 6>>
    ELSE IF type = "monthly" THEN <<key[1], key[2], 31>>
    ELSE YearEndStr(key[1])

\* the end_date a generator computes for its period
GeneratorEnd(type, key) ==
    IF type = "weekly"
    THEN LET start == parseLocalISODate(key)
         IN  formatDateISO(NewDate(GetFullYear(start), GetMonth(start),
                                   GetDate(start) + 6))
    ELSE IF type = "monthly"
    THEN LET start == parseLocalISODate(key)
         IN  formatDateISO(NewDate(GetFullYear(start), GetMonth(start) + 1, 0))
    ELSE YearEndStr(key[1])

\* aiService.validateSummaryRequest does not throw
AiRequestValid(rows, startDate, endDate) ==
    /\ ParseOk(startDate)
    /\ ParseOk(endDate)
    /\ rows # {}

-----------------------------------------------------------------------------
(* forceSummaryGeneration: normalisation of the date argument *)

normalizeWeeklyForceDate(date) == formatDateISO(parseLocalISODate(date))

normalizeMonthlyForceDate(date) ==
    LET d == parseLocalISODate(date)
    IN  formatDateISO(NewDate(GetFullYear(d), GetMonth(d), 1))

\* /^(?:\d{4}|\d{4}-\d{2}-\d{2})$/ matches
YearlyPatternOk(date) == Len(date) \in {1, 3}

normalizeYearlyForceDate(date) == date[1]

\* normalisation does not throw
NormalizeOk(type, date) ==
    IF type = "yearly" THEN YearlyPatternOk(date) ELSE ParseOk(date)

\* the period key handed to the generator
NormalizedKey(type, date) ==
    IF type = "weekly" THEN normalizeWeeklyForceDate(date)
    ELSE IF type = "monthly" THEN normalizeMonthlyForceDate(date)
    ELSE YearStartStr(normalizeYearlyForceDate(date))

-----------------------------------------------------------------------------
(* Bounds of the model and the initial store *)

MaxEdits == 1
MaxFailures == 1
MaxPasses == 2
MaxForces == 1
MaxTicks == 1
MaxCycles == 1

\* Sunday 2025-01-05
FirstDay == NewDate(2025, 0, 5)

\* the dates the user writes entries for: two weeks of December 2024
EntryDates ==
    {<<2024, 12, 9>>, <<2024, 12, 10>>, <<2024, 12, 15>>,
     <<2024, 12, 16>>, <<2024, 12, 17>>, <<2024, 12, 18>>}

\* the dates the user saves an entry for: a new one, and one already written
SaveDates == {<<2024, 12, 11>>, <<2024, 12, 16>>}

\* the dates the user deletes the entry of
DeleteDates == {<<2024, 12, 10>>, <<2024, 12, 17>>}

\* monthly summaries of July .. November 2024, generated by earlier passes
PriorMonthlies ==
    {[id |-> m - 6, type |-> "monthly", start_date |-> <<2024, m, 1>>,
      end_date |-> <<2024, m, DaysInMonth(2024, m)>>] : m \in 7..11}

\* date arguments handed to forceSummaryGeneration
ForceDates ==
    {<<2024, 12, 9>>, <<2024, 12, 11>>, <<2024, 12, 2>>, <<2024, 2, 31>>,
     <<2024>>, <<2024, 12>>, <<>>}

Frame(p) == [l |-> proc[p], h |-> hist[p]]

\* a pass that completes without failure and without disturbance is counted
Commit(p, f) ==
    /\ proc' = [proc EXCEPT ![p] = f.l]
    /\ hist' = [hist EXCEPT ![p] = f.h]

PassCounted(p, f) ==
    /\ f.h.ended /\ ~hist[p].ended
    /\ f.h.call = "scan" /\ f.h.undisturbed /\ f.h.failedIn = "none"

CommitPass(p, f) ==
    /\ Commit(p, f)
    /\ log' = IF PassCounted(p, f) THEN [log EXCEPT !.cleanPasses = @ + 1] ELSE log

Disturbed(h) == [q \in Callers |-> [h[q] EXCEPT !.undisturbed = FALSE]]

\* the item lists saveDailyEntry is handed for the entry, after the filter
\* on blank items
ItemLists == {<<"walk", "read">>, <<"call">>, <<>>}

\* the items stored for the entry before the calls
PreviousItems == {"nap"}

\* DatabaseService as constructed, on a database file without tables
NewService ==
    [handle |-> "null", isInitialized |-> FALSE, tables |-> FALSE,
     opens |-> 0, creates |-> 0, cycles |-> 0,
     inTransaction |-> FALSE, owner |-> "none",
     items |-> PreviousItems, undo |-> PreviousItems, fails |-> 0]

NoCall == [init |-> "idle", save |-> "idle", items |-> <<>>, k |-> 0]

\* no pure function has been called
NoCalc == [op |-> "none", args |-> <<>>, result |-> <<>>]

Init ==
    /\ today = FirstDay
    /\ tz \in {-1, 0}
    /\ entries = EntryDates
    /\ summaries \in {{}, PriorMonthlies}
    /\ nextId = Cardinality(summaries) + 1
    /\ proc = [p \in Callers |-> IdleLocal]
    /\ hist = [p \in Callers |-> IdleHist]
    /\ log = [cleanPasses |-> 0, forcedIds |-> {}]
    /\ env = [ops |-> 0, fails |-> 0, passes |-> 0, forces |-> 0]
    /\ calc = NoCalc
    /\ db = NewService
    /\ svc = [c \in Callers |-> NoCall]

-----------------------------------------------------------------------------
(* Environment: the clock and the user's edits *)

Tick ==
    /\ today < FirstDay + MaxTicks
    /\ today' = today + 1
    /\ hist' = Disturbed(hist)
    /\ log' = [log EXCEPT !.cleanPasses = 0]
    /\ UNCHANGED <<db, svc, calc, tz, entries, summaries, nextId, proc, env>>

EnvOp ==
    /\ env.ops < MaxEdits
    /\ env' = [env EXCEPT !.ops = @ + 1]
    /\ hist' = Disturbed(hist)
    /\ log' = [log EXCEPT !.cleanPasses = 0]
    /\ UNCHANGED <<db, svc, calc, today, tz, nextId, proc>>

SaveEntry(d) ==
    /\ EnvOp
    /\ entries' = saveDailyEntry(entries, d)
    /\ UNCHANGED summaries

DeleteEntry(d) ==
    /\ EnvOp
    /\ d \in entries
    /\ entries' = deleteEntry(entries, d)
    /\ UNCHANGED summaries

DeleteSummary(r) ==
    /\ EnvOp
    /\ r \in summaries
    /\ summaries' = deleteSummary(summaries, r.id)
    /\ UNCHANGED entries

-----------------------------------------------------------------------------
(* The scanner: checkAndGeneratePendingSummaries *)

\* the call: generatePendingWeeklySummaries reads the clock and issues its
\* first store call.  serial: no other invocation is in flight.
BeginPass(p, serial) ==
    /\ proc[p].pc = "idle"
    /\ env.passes < MaxPasses
    /\ serial => \A q \in Callers : proc[q].pc = "idle"
    /\ env' = [env EXCEPT !.passes = @ + 1]
    /\ LET alone == \A q \in Callers : proc[q].pc = "idle"
           f == StartScan([l |-> IdleLocal,
                           h |-> [IdleHist EXCEPT !.call = "scan",
                                                  !.undisturbed = alone,
                                                  !.cleanBefore =
                                                      IF alone THEN log.cleanPasses
                                                      ELSE 0]],
                          "weekly")
       IN  /\ proc' = [proc EXCEPT ![p] = f.l]
           /\ hist' = [IF alone THEN hist ELSE Disturbed(hist) EXCEPT ![p] = f.h]
           /\ log' = IF alone THEN log ELSE [log EXCEPT !.cleanPasses = 0]
    /\ UNCHANGED <<db, svc, calc, today, tz, entries, summaries, nextId>>

\* getSummaries(type) returns the scanner's existing rows
GetExisting(p) ==
    /\ proc[p].pc = "snap"
    /\ LET l == proc[p]
           rows == getSummaries(summaries, l.type)
           f == [l |-> [l EXCEPT !.existingStarts =
                                   IF l.type = "weekly"
                                   THEN {formatDateISO(parseLocalISODate(r.start_date))
                                             : r \in rows}
                                   ELSE {r.start_date : r \in rows}],
                 h |-> hist[p]]
       IN  CommitPass(p,
               IF l.type = "weekly"
               THEN (IF \E r \in rows : ~ParseOk(r.start_date)
                     THEN Propagate(f) ELSE WeeklyLoop(f, 0))
               ELSE IF l.type = "monthly" THEN MonthlyLoop(f, 1)
               ELSE [f EXCEPT !.l.pc = "y_monthlies"])
    /\ UNCHANGED <<db, svc, calc, today, tz, entries, summaries, nextId, env>>

\* getSummaries('monthly') returns to the yearly scanner
GetMonthlies(p) ==
    /\ proc[p].pc = "y_monthlies"
    /\ LET f == [l |-> [proc[p] EXCEPT !.monthlySummaries =
                                          getSummaries(summaries, "monthly")],
                 h |-> hist[p]]
       IN  CommitPass(p, YearlyLoop(f, 0))
    /\ UNCHANGED <<db, svc, calc, today, tz, entries, summaries, nextId, env>>

\* the gate's source fetch returns to the weekly or monthly scanner
GateFetch(p) ==
    /\ proc[p].pc = "count"
    /\ LET l == proc[p]
           n == Cardinality(GeneratorSources(l.type, l.key))
       IN  CommitPass(p,
               IF MeetsThreshold(l.type, n)
               THEN EnterGenerator(Gate(Frame(p), l.type, l.key, n, TRUE),
                                   l.type, l.key)
               ELSE Resume(Gate(Frame(p), l.type, l.key, n, FALSE)))
    /\ UNCHANGED <<db, svc, calc, today, tz, entries, summaries, nextId, env>>

-----------------------------------------------------------------------------
(* Generator steps, for the scanner and for forceSummaryGeneration *)

CountStoreCall(h, call) ==
    IF call = "force" THEN [h EXCEPT !.force.storeCalls = @ + 1] ELSE h

\* the generator's source fetch returns: null on no rows, else the aggregator
\* runs and saveSummary is issued
GenFetch(p) ==
    /\ proc[p].pc = "g_fetch"
    /\ LET l == proc[p]
           rows == GeneratorSources(l.type, l.key)
           h1 == [CountStoreCall(hist[p], l.call)
                    EXCEPT !.gen.fetches = @ + 1,
                           !.gen.fetched = Cardinality(rows)]
           end == GeneratorEnd(l.type, l.key)
       IN  CommitPass(p,
               IF SourcesEmpty(rows)
               THEN Resume([l |-> l, h |-> [h1 EXCEPT !.gen.result = "null"]])
               ELSE IF ~AiRequestValid(rows, l.key, end)
               THEN Propagate([l |-> l, h |-> h1])
               ELSE [l |-> [l EXCEPT !.pc = "g_save", !.end = end],
                     h |-> [h1 EXCEPT !.gen.aggregated = TRUE,
                                      !.gen.saveCalls = @ + 1,
                                      !.saveCalls = @ + 1]])
    /\ UNCHANGED <<db, svc, calc, today, tz, entries, summaries, nextId, env>>

\* saveSummary returns the new id; the generator returns the Summary
GenSave(p) ==
    /\ proc[p].pc = "g_save"
    /\ LET l == proc[p]
           row == [type |-> l.type, start_date |-> l.key, end_date |-> l.end]
           f == Resume([l |-> l,
                        h |-> [CountStoreCall(hist[p], l.call)
                                 EXCEPT !.gen.result = "summary"]])
       IN  /\ summaries' = saveSummary(summaries, nextId, row)
           /\ nextId' = nextId + 1
           /\ Commit(p, f)
           /\ log' = [cleanPasses |-> IF PassCounted(p, f)
                                      THEN log.cleanPasses + 1 ELSE log.cleanPasses,
                      forcedIds |-> IF l.call = "force"
                                    THEN log.forcedIds \cup {nextId}
                                    ELSE log.forcedIds]
    /\ UNCHANGED <<db, svc, calc, today, tz, entries, env>>

\* a store call throws instead of returning
StoreFails(p) ==
    /\ proc[p].pc \in StoreCallPcs
    /\ env.fails < MaxFailures
    /\ env' = [env EXCEPT !.fails = @ + 1]
    /\ LET f == OnStoreError([l |-> proc[p],
                              h |-> [CountStoreCall(hist[p], proc[p].call)
                                       EXCEPT !.gen.failed =
                                                 (hist[p].gen.result = "pending"),
                                              !.gen.fetches =
                                                 IF proc[p].pc = "g_fetch"
                                                 THEN @ + 1 ELSE @]])
       IN  /\ proc' = [proc EXCEPT ![p] = f.l]
           /\ hist' = [Disturbed(hist) EXCEPT ![p] = [f.h EXCEPT !.undisturbed = FALSE]]
    /\ log' = [log EXCEPT !.cleanPasses = 0]
    /\ UNCHANGED <<db, svc, calc, today, tz, entries, summaries, nextId>>

\* forceSummaryGeneration(type, date): normalise, then call the generator
Force(p, type, date) ==
    /\ proc[p].pc = "idle"
    /\ env.forces < MaxForces
    /\ env' = [env EXCEPT !.forces = @ + 1]
    /\ LET h0 == [IdleHist EXCEPT !.call = "force",
                                  !.force = [type |-> type, input |-> date,
                                             storeCalls |-> 0, result |-> "pending"]]
           l0 == [IdleLocal EXCEPT !.call = "force", !.type = type]
           f == IF NormalizeOk(type, date)
                THEN EnterGenerator([l |-> l0, h |-> h0], type,
                                    NormalizedKey(type, date))
                ELSE Propagate([l |-> l0, h |-> h0])
       IN  /\ proc' = [proc EXCEPT ![p] = f.l]
           /\ hist' = [Disturbed(hist) EXCEPT ![p] = f.h]
    /\ log' = [log EXCEPT !.cleanPasses = 0]
    /\ UNCHANGED <<db, svc, calc, today, tz, entries, summaries, nextId>>

-----------------------------------------------------------------------------
(* Specifications *)

ScanStep(p) ==
    \/ GetExisting(p)
    \/ GetMonthlies(p)
    \/ GateFetch(p)
    \/ GenFetch(p)
    \/ GenSave(p)

\* both screens call the scanner at will; store calls may fail
Next ==
    \/ \E p \in Callers : BeginPass(p, FALSE)
    \/ \E p \in Callers : ScanStep(p)
    \/ \E p \in Callers : StoreFails(p)

Spec == Init /\ [][Next]_vars

-----------------------------------------------------------------------------
(* DatabaseService: initialize, close, saveDailyEntry and saveItemsBatch *)

DbStep(d, c, field, pc) ==
    /\ db' = d
    /\ svc' = [svc EXCEPT ![c][field] = pc]
    /\ UNCHANGED <<today, tz, entries, summaries, nextId, proc, hist, log, env, calc>>

\* initialize(): if (this.db && this.isInitialized) return;
CallInitialize(c) ==
    /\ svc[c].init \in {"idle", "returned"}
    /\ DbStep(db, c, "init",
              IF db.handle = "open" /\ db.isInitialized THEN "returned" ELSE "open")

\* this.db = await SQLite.openDatabaseAsync('daily_planner.db')
OpenDatabase(c) ==
    /\ svc[c].init = "open"
    /\ DbStep([db EXCEPT !.handle = "open", !.opens = @ + 1], c, "init", "foreign_keys")

\* await this.db.execAsync('PRAGMA foreign_keys = ON')
PragmaForeignKeys(c) ==
    /\ svc[c].init = "foreign_keys"
    /\ DbStep(db, c, "init", "journal_mode")

\* await this.db.execAsync('PRAGMA journal_mode = WAL')
PragmaJournalMode(c) ==
    /\ svc[c].init = "journal_mode"
    /\ DbStep(db, c, "init", "createTables")

\* await this.createTables(); this.isInitialized = true;
CreateTables(c) ==
    /\ svc[c].init = "createTables"
    /\ DbStep([db EXCEPT !.tables = TRUE, !.creates = @ + 1, !.isInitialized = TRUE],
              c, "init", "returned")

\* close(): closeAsync, this.db = null, this.isInitialized = false; a new
\* open/close cycle starts
Close ==
    /\ db.handle = "open"
    /\ \A c \in Callers : svc[c].init \in {"idle", "returned"}
    /\ db.cycles < MaxCycles
    /\ db' = [db EXCEPT !.handle = "null", !.isInitialized = FALSE,
                        !.opens = 0, !.creates = 0, !.cycles = @ + 1]
    /\ svc' = [c \in Callers |-> [svc[c] EXCEPT !.init = "idle"]]
    /\ UNCHANGED <<today, tz, entries, summaries, nextId, proc, hist, log, env, calc>>

InitializeStep(c) ==
    \/ OpenDatabase(c)
    \/ PragmaForeignKeys(c)
    \/ PragmaJournalMode(c)
    \/ CreateTables(c)

\* saveDailyEntry up to the call of saveItemsBatch(entryId, items): the
\* UPSERT of the entry row and the SELECT of its id leave the items alone
CallSaveDailyEntry(c, items) ==
    /\ svc[c].save = "idle"
    /\ db' = db
    /\ svc' = [svc EXCEPT ![c].save = "BEGIN", ![c].items = items, ![c].k = 1]
    /\ UNCHANGED <<today, tz, entries, summaries, nextId, proc, hist, log, env, calc>>

\* await this.db.execAsync('BEGIN TRANSACTION'): an error when the
\* connection already is in a transaction
BeginTransaction(c) ==
    /\ svc[c].save = "BEGIN"
    /\ IF db.inTransaction
       THEN DbStep(db, c, "save", "ROLLBACK")
       ELSE DbStep([db EXCEPT !.inTransaction = TRUE, !.owner = c, !.undo = db.items],
                   c, "save", "DELETE")

\* await this.db.runAsync('DELETE FROM daily_entry_items WHERE entry_id = ?')
DeleteItems(c) ==
    /\ svc[c].save = "DELETE"
    /\ DbStep([db EXCEPT !.items = {}], c, "save",
              IF Len(svc[c].items) > 0 THEN "INSERT" ELSE "COMMIT")

\* await statement.executeAsync([entryId, item.type, item.content])
InsertItem(c) ==
    /\ svc[c].save = "INSERT"
    /\ db' = [db EXCEPT !.items = @ \cup {svc[c].items[svc[c].k]}]
    /\ svc' = [svc EXCEPT ![c].k = @ + 1,
                          ![c].save = IF svc[c].k = Len(svc[c].items)
                                      THEN "COMMIT" ELSE "INSERT"]
    /\ UNCHANGED <<today, tz, entries, summaries, nextId, proc, hist, log, env, calc>>

\* await this.db.execAsync('COMMIT'): an error when no transaction is active
CommitTransaction(c) ==
    /\ svc[c].save = "COMMIT"
    /\ IF db.inTransaction
       THEN DbStep([db EXCEPT !.inTransaction = FALSE, !.owner = "none"],
                   c, "save", "saved")
       ELSE DbStep(db, c, "save", "ROLLBACK")

\* catch: await this.db.execAsync('ROLLBACK'); throw error. ROLLBACK undoes
\* the connection's active transaction, whoever began it
RollbackTransaction(c) ==
    /\ svc[c].save = "ROLLBACK"
    /\ IF db.inTransaction
       THEN DbStep([db EXCEPT !.inTransaction = FALSE, !.owner = "none",
                              !.items = db.undo],
                   c, "save", "failed")
       ELSE DbStep(db, c, "save", "failed")

\* a statement of saveItemsBatch throws
StatementFails(c) ==
    /\ svc[c].save \in {"DELETE", "INSERT", "COMMIT"}
    /\ db.fails < MaxFailures
    /\ DbStep([db EXCEPT !.fails = @ + 1], c, "save", "ROLLBACK")

\* the process dies: the database drops the uncommitted transaction
Crash ==
    /\ \E c \in Callers : svc[c].save \in {"BEGIN", "DELETE", "INSERT", "COMMIT", "ROLLBACK"}
    /\ db' = [db EXCEPT !.inTransaction = FALSE, !.owner = "none",
                        !.items = IF db.inTransaction THEN db.undo ELSE db.items]
    /\ svc' = [c \in Callers |->
                 [svc[c] EXCEPT !.save = IF svc[c].save = "idle" THEN "idle" ELSE "crashed"]]
    /\ UNCHANGED <<today, tz, entries, summaries, nextId, proc, hist, log, env, calc>>

SaveItemsBatchStep(c) ==
    \/ BeginTransaction(c)
    \/ DeleteItems(c)
    \/ InsertItem(c)
    \/ CommitTransaction(c)
    \/ RollbackTransaction(c)

\* the alert handleForceGenerate shows once forceSummaryGeneration has
\* settled: the try block ignores the returned value and alerts 'Success'
\* after loadSummaries, which catches its own errors; the catch block
\* alerts 'Note'
handleForceGenerateAlert(result) ==
    IF result = "error"
    THEN [title |-> "Note", message |-> "Could not generate summary"]
    ELSE [title |-> "Success", message |-> "Summary generated successfully!"]

\* scanner passes one at a time, among the user's edits and clock changes
NextSerial ==
    \/ Tick
    \/ \E d \in SaveDates : SaveEntry(d)
    \/ \E d \in DeleteDates : DeleteEntry(d)
    \/ \E r \in summaries : DeleteSummary(r)
    \/ \E p \in Callers : BeginPass(p, TRUE)
    \/ \E p \in Callers : ScanStep(p)

SpecSerial == Init /\ [][NextSerial]_vars

\* forced generation from the summaries screen, among scanner passes
NextForce ==
    \/ \E t \in Types, d \in ForceDates : Force("screen", t, d)
    \/ \E p \in Callers : BeginPass(p, TRUE)
    \/ \E p \in Callers : ScanStep(p)
    \/ \E p \in Callers : StoreFails(p)

SpecForce == Init /\ [][NextForce]_vars

\* forced generation among scanner passes and the user's deletions
NextForceEdits ==
    \/ \E d \in DeleteDates : DeleteEntry(d)
    \/ \E t \in Types, d \in ForceDates : Force("screen", t, d)
    \/ \E p \in Callers : BeginPass(p, TRUE)
    \/ \E p \in Callers : ScanStep(p)

SpecForceEdits == Init /\ [][NextForceEdits]_vars

\* initialize() called from the screens' loaders, and close()
NextInitialize ==
    \/ \E c \in Callers : CallInitialize(c)
    \/ \E c \in Callers : InitializeStep(c)
    \/ Close

SpecInitialize == Init /\ [][NextInitialize]_vars

\* saveDailyEntry calls for one entry on the shared connection
NextSave ==
    \/ \E c \in Callers, items \in ItemLists : CallSaveDailyEntry(c, items)
    \/ \E c \in Callers : SaveItemsBatchStep(c)
    \/ \E c \in Callers : StatementFails(c)
    \/ Crash

SpecSave == Init /\ [][NextSave]_vars

\* scanner passes of both screens, whose store calls all return
NextScan ==
    \/ \E p \in Callers : BeginPass(p, FALSE)
    \/ \E p \in Callers : ScanStep(p)

\* every store call returns: weak fairness of ScanStep(p), which is enabled
\* exactly while p is suspended on a store call
StoreCallReturns(p) ==
    []<>(proc[p].pc = "idle") \/ []<><<ScanStep(p)>>_vars

SpecScan ==
    Init /\ [][NextScan]_vars /\ \A p \in Callers : StoreCallReturns(p)

-----------------------------------------------------------------------------
(* Rule-based summarizers (lib/ai/summarizers.ts).  A string is a sequence *)
(* of characters.  A JS number that is a quotient of integers is kept      *)
(* exact, as <<numerator, denominator>> in lowest terms.                   *)

Chars(s) == [i \in 1..Len(s) |-> SubSeq(s, i, i)]

RECURSIVE GCD(_, _)
GCD(a, b) == IF b = 0 THEN a ELSE GCD(b, a % b)

Quotient(n, d) == <<n \div GCD(n, d), d \div GCD(n, d)>>

Number(n) == <<n, 1>>

\* s + n
Plus(a, b) == Quotient(a[1] * b[2] + b[1] * a[2], a[2] * b[2])

SameNumber(a, b) == a[1] * b[2] = b[1] * a[2]

\* toFixed(1): the nearest multiple of one tenth, in tenths
toFixed1(a) == (20 * a[1] + a[2]) \div (2 * a[2])

\* nums.reduce((s, n) => s + n, 0)
RECURSIVE Reduce(_)
Reduce(nums) ==
    IF nums = <<>> THEN Number(0)
    ELSE Plus(Reduce(SubSeq(nums, 1, Len(nums) - 1)), nums[Len(nums)])

\* variant: the quotient rounded down to an integer
averageRoundedDown(nums) ==
    IF Len(nums) # 0
    THEN Number(Reduce(nums)[1] \div (Reduce(nums)[2] * Len(nums)))
    ELSE Number(0)

average(nums) ==
    IF Len(nums) # 0
    THEN Quotient(Reduce(nums)[1], Reduce(nums)[2] * Len(nums))
    ELSE Number(0)

\* !!s && !!s.trim()
nonEmpty(s) == s # <<>> /\ Trim(s) # <<>>

\* rows.flatMap(r => r.list), given the lists
RECURSIVE Flat(_)
Flat(lists) ==
    IF lists = <<>> THEN <<>> ELSE Head(lists) \o Flat(Tail(lists))

\* variant: the last n items
SliceKeepingLast(list, n) ==
    SubSeq(list, IF Len(list) < n THEN 1 ELSE Len(list) - n + 1, Len(list))

\* list.slice(0, n)
Slice(list, n) == SubSeq(list, 1, IF Len(list) < n THEN Len(list) ELSE n)

-----------------------------------------------------------------------------
(* Theme counting: the keys of a plain object and the ranking by frequency *)

Frequency(themes, t) == Cardinality({i \in DOMAIN themes : themes[i] = t})

\* a property key that is an array index: a canonical decimal numeral (the
\* keys of the model have at most nine digits)
IsArrayIndex(key) ==
    /\ Len(key) \in 1..9
    /\ \A i \in DOMAIN key : key[i] \in DigitChars
    /\ (Len(key) = 1 \/ key[1] # "0")

\* the members of a set of positions, in ascending order
Ordered(positions) ==
    [n \in 1..Cardinality(positions) |->
        CHOOSE i \in positions :
            Cardinality({j \in positions : j < i}) = n - 1]

FirstOccurrences(list) ==
    {i \in DOMAIN list : \A j \in 1..(i - 1) : list[j] # list[i]}

\* the distinct members of a list, in the order of their first occurrence
Distinct(list) ==
    [n \in 1..Cardinality(FirstOccurrences(list)) |->
        list[Ordered(FirstOccurrences(list))[n]]]

\* distinct array indices in ascending numeric order
Ascending(keys) ==
    [n \in DOMAIN keys |->
        keys[CHOOSE i \in DOMAIN keys :
                 Cardinality({j \in DOMAIN keys :
                                  NumberOf(keys[j]) < NumberOf(keys[i])})
                     = n - 1]]

\* the order in which Object.entries lists the keys of a plain object whose
\* properties were written in the given order: array indices first, in
\* ascending numeric order, then the other keys in the order of creation
OwnKeys(written) ==
    Ascending(SelectSeq(Distinct(written), IsArrayIndex))
        \o SelectSeq(Distinct(written), LAMBDA key : ~IsArrayIndex(key))

\* the entry at position j comes before the entry at position i after
\* .sort((a, b) => b[1] - a[1]): it has a larger count, or the same count
\* and an earlier position (the sort is stable)
SortsBefore(keys, themes, j, i) ==
    \/ Frequency(themes, keys[j]) > Frequency(themes, keys[i])
    \/ Frequency(themes, keys[j]) = Frequency(themes, keys[i]) /\ j < i

SortDescending(keys, themes) ==
    [n \in DOMAIN keys |->
        keys[CHOOSE i \in DOMAIN keys :
                 Cardinality({j \in DOMAIN keys :
                                  SortsBefore(keys, themes, j, i)}) = n - 1]]

consolidateThemes(themes) == SortDescending(OwnKeys(themes), themes)

-----------------------------------------------------------------------------
(* Keywords of the daily texts *)

LowerCaseLetters == Chars("abcdefghijklmnopqrstuvwxyz")

UpperCaseLetters == Chars("ABCDEFGHIJKLMNOPQRSTUVWXYZ")

Position(c, letters) == CHOOSE i \in DOMAIN letters : letters[i] = c

IsIn(c, letters) == \E i \in DOMAIN letters : letters[i] = c

toLowerCase(c) ==
    IF IsIn(c, UpperCaseLetters)
    THEN LowerCaseLetters[Position(c, UpperCaseLetters)] ELSE c

toUpperCase(c) ==
    IF IsIn(c, LowerCaseLetters)
    THEN UpperCaseLetters[Position(c, LowerCaseLetters)] ELSE c

\* \w of a regular expression
IsWordChar(c) ==
    IsIn(c, LowerCaseLetters) \/ IsIn(c, UpperCaseLetters)
        \/ c \in DigitChars \/ c = "_"

\* \s of a regular expression, for the characters of the model
IsSpace(c) == c = " "

\* text.toLowerCase().replace(/[^\w\s]/g, '')
Cleaned(text) ==
    SelectSeq([i \in DOMAIN text |-> toLowerCase(text[i])],
              LAMBDA c : IsWordChar(c) \/ IsSpace(c))

\* positions at which a run of characters other than whitespace starts
PieceStarts(text) ==
    {i \in DOMAIN text :
        ~IsSpace(text[i]) /\ (i = 1 \/ IsSpace(text[i - 1]))}

PieceEnd(text, i) ==
    CHOOSE j \in i..Len(text) :
        /\ \A k \in i..j : ~IsSpace(text[k])
        /\ j = Len(text) \/ IsSpace(text[j + 1])

Pieces(text) ==
    [n \in 1..Cardinality(PieceStarts(text)) |->
        SubSeq(text, Ordered(PieceStarts(text))[n],
               PieceEnd(text, Ordered(PieceStarts(text))[n]))]

\* text.split(/\s+/): the pieces between runs of whitespace; a text that
\* starts or ends with whitespace has an empty first or last piece, and the
\* empty text has one empty piece
Split(text) ==
    IF text = <<>> THEN <<(<<>>)>>
    ELSE (IF IsSpace(text[1]) THEN <<(<<>>)>> ELSE <<>>)
             \o Pieces(text)
             \o (IF IsSpace(text[Len(text)]) /\ PieceStarts(text) # {}
                 THEN <<(<<>>)>> ELSE <<>>)

common ==
    {Chars(w) : w \in
        {"the", "and", "or", "but", "in", "on", "at", "to", "for", "of",
         "with", "by", "a", "an", "is", "was", "were", "been", "have", "has",
         "had", "will", "would", "could", "should", "i", "you", "he", "she",
         "it", "we", "they", "me", "him", "her", "us", "them", "my", "your",
         "his", "its", "our", "their"}}

IsKeyword(w) == Len(w) > 3 /\ w \notin common

\* the words of one text that are counted
WordsOf(text) ==
    SelectSeq(Split(Cleaned(text)), IsKeyword)

\* w[0].toUpperCase() + w.slice(1)
Capitalized(w) == <<toUpperCase(w[1])>> \o Tail(w)

Ranked(words, n) == Slice(SortDescending(OwnKeys(words), words), n)

extractKeyThemes(dailyTexts) ==
    LET top == Ranked(Flat([t \in DOMAIN dailyTexts |->
                                WordsOf(dailyTexts[t])]), 8)
    IN  [i \in DOMAIN top |-> Capitalized(top[i])]

-----------------------------------------------------------------------------
(* The three aggregators; the result is the insights of the response *)

\* variant: trends computed as 0 / 0
emptyResponseNaN ==
    [key_themes |-> <<>>, productivity_trend |-> <<0, 0>>,
     mood_trend |-> <<0, 0>>, energy_trend |-> <<0, 0>>,
     top_accomplishments |-> <<>>, main_learnings |-> <<>>]

emptyResponse ==
    [key_themes |-> <<>>, productivity_trend |-> Number(0),
     mood_trend |-> Number(0), energy_trend |-> Number(0),
     top_accomplishments |-> <<>>, main_learnings |-> <<>>]

\* entries.map(e => e.ratings.<field>)
Ratings(dailyEntries, field) ==
    [i \in DOMAIN dailyEntries |-> Number(dailyEntries[i].ratings[field])]

\* entries.flatMap(e => e.<field>).filter(nonEmpty)
EntryItems(dailyEntries, field) ==
    SelectSeq(Flat([i \in DOMAIN dailyEntries |-> dailyEntries[i][field]]),
              nonEmpty)

ruleBasedWeekly(dailyEntries) ==
    IF Len(dailyEntries) = 0 THEN emptyResponse
    ELSE [key_themes |->
              extractKeyThemes([i \in DOMAIN dailyEntries |->
                                    dailyEntries[i].daily_text]),
          productivity_trend |->
              average(Ratings(dailyEntries, "productivity")),
          mood_trend |-> average(Ratings(dailyEntries, "mood")),
          energy_trend |-> average(Ratings(dailyEntries, "energy")),
          top_accomplishments |->
              Slice(EntryItems(dailyEntries, "accomplishments"), 5),
          main_learnings |->
              Slice(EntryItems(dailyEntries, "things_learned"), 5)]

\* summaries.map(s => s.insights.<field>)
Trends(rows, field) ==
    [i \in DOMAIN rows |-> rows[i].insights[field]]

\* summaries.flatMap(s => s.insights.<field>)
InsightItems(rows, field) ==
    Flat([i \in DOMAIN rows |-> rows[i].insights[field]])

ruleBasedMonthly(weeklySummaries) ==
    IF Len(weeklySummaries) = 0 THEN emptyResponse
    ELSE [key_themes |->
              Slice(consolidateThemes(
                        InsightItems(weeklySummaries, "key_themes")), 10),
          productivity_trend |->
              average(Trends(weeklySummaries, "productivity_trend")),
          mood_trend |-> average(Trends(weeklySummaries, "mood_trend")),
          energy_trend |-> average(Trends(weeklySummaries, "energy_trend")),
          top_accomplishments |->
              Slice(InsightItems(weeklySummaries, "top_accomplishments"), 10),
          main_learnings |->
              Slice(InsightItems(weeklySummaries, "main_learnings"), 10)]

ruleBasedYearly(monthlySummaries) ==
    IF Len(monthlySummaries) = 0 THEN emptyResponse
    ELSE [key_themes |->
              Slice(consolidateThemes(
                        InsightItems(monthlySummaries, "key_themes")), 8),
          productivity_trend |->
              average(Trends(monthlySummaries, "productivity_trend")),
          mood_trend |-> average(Trends(monthlySummaries, "mood_trend")),
          energy_trend |-> average(Trends(monthlySummaries, "energy_trend")),
          top_accomplishments |->
              Slice(InsightItems(monthlySummaries, "top_accomplishments"), 20),
          main_learnings |->
              Slice(InsightItems(monthlySummaries, "main_learnings"), 20)]

-----------------------------------------------------------------------------
(* Pure functions of the pipeline, applied to arguments drawn from small    *)
(* sets                                                                    *)

Called(op, args, result) ==
    /\ calc' = [op |-> op, args |-> args, result |-> result]
    /\ UNCHANGED <<db, svc, today, tz, entries, summaries, nextId, proc, hist, log, env>>

\* period keys a generator is handed: weeks that cross a month or a year
\* boundary, months of every length, a year
PeriodKeys ==
    [weekly |-> {<<2025, 1, 6>>, <<2024, 12, 30>>, <<2024, 2, 26>>,
                 <<2025, 2, 24>>, <<2024, 12, 9>>, <<2024, 12, 11>>},
     monthly |-> {<<2024, 2, 1>>, <<2025, 2, 1>>, <<2024, 4, 1>>,
                  <<2024, 12, 1>>, <<2025, 1, 1>>},
     yearly |-> {<<2024, 1, 1>>, <<2025, 1, 1>>}]

\* a generator computes the end of its window
ComputeWindowEnd(type, key) ==
    Called("GeneratorEnd", <<type, key>>, GeneratorEnd(type, key))

\* date strings handed to parseLocalISODate
DateTexts ==
    {<<"2", "0", "2", "4", "-", "0", "2", "-", "2", "9">>,
     <<"2", "0", "2", "4", "-", "0", "2", "-", "3", "0">>,
     <<"2", "0", "2", "5", "-", "0", "2", "-", "2", "9">>,
     <<"2", "0", "2", "4", "-", "1", "3", "-", "0", "1">>,
     <<"2", "0", "2", "4", "-", "0", "0", "-", "1", "0">>,
     <<"2", "0", "2", "4", "-", "0", "4", "-", "3", "1">>,
     <<"2", "0", "2", "4", "-", "1", "2", "-", "0", "0">>,
     <<"2", "0", "2", "4", "-", "1", "2", "-", "3", "1">>,
     <<"2", "0", "2", "4", "-", "1", "-", "5">>,
     <<"2", "0", "2", "4", "/", "1", "2", "/", "0", "9">>,
     <<"2", "0", "2", "4", "-", "1", "2", "-", "0", "9", "T">>,
     <<"2", "0", "2", "4">>,
     <<"a", "b", "c", "d", "-", "e", "f", "-", "g", "h">>,
     <<>>,
     <<" ", "2", "0", "2", "4", "-", "1", "2", "-", "0", "9", " ">>,
     <<" ", "2", "0", "2", "4", "-", "0", "2", "-", "3", "0">>,
     <<"0", "9", "9", "9", "-", "0", "1", "-", "0", "1">>,
     <<"0", "0", "5", "0", "-", "0", "1", "-", "0", "1">>}

\* formatDateISO(parseLocalISODate(dateString))
ParseAndFormat(dateString) ==
    Called("parseLocalISODate", <<dateString>>, ParseThenFormat(dateString))

\* dates handed to getWeekStartDate: every weekday, around the ends of
\* February 2024 and of the year 2024
WeekDates ==
    (NewDate(2024, 1, 25) .. NewDate(2024, 2, 4))
        \cup (NewDate(2024, 11, 26) .. NewDate(2025, 0, 8))

ComputeWeekStart(date) ==
    Called("getWeekStartDate", <<date>>, getWeekStartDate(date))

\* daily entries handed to the weekly aggregator
Entry(p, m, e, accomplishments, learned, text) ==
    [ratings |-> [productivity |-> p, mood |-> m, energy |-> e],
     accomplishments |-> accomplishments, things_learned |-> learned,
     daily_text |-> text]

Item(kind, week, i) == Chars(kind) \o <<DigitChar(week), DigitChar(i)>>

Items(kind, week, from, to) ==
    [i \in 1..(to - from + 1) |-> Item(kind, week, from + i - 1)]

\* the words from .. to of a week, each followed by a space
Topics(week, from, to) ==
    Flat([i \in 1..(to - from + 1) |->
              Item("topic", week, from + i - 1) \o <<" ">>])

\* a week of three entries with six accomplishments, seven learnings and
\* nine keywords, blank items among them
BusyWeek(k) ==
    <<Entry(5, 3, 2, <<Item("did", k, 1), <<>>, Item("did", k, 2)>>,
            <<Item("saw", k, 1), Chars("  ")>>, Topics(k, 1, 5)),
      Entry(5, 4, 2, Items("did", k, 3, 6), Items("saw", k, 2, 7),
            Topics(k, 4, 9)),
      Entry(4, 4, 3, <<>>, <<>>, Chars(" Back to topic one, with Topic_One"))>>

QuietWeek ==
    <<Entry(2, 1, 5, <<Chars("rested")>>, <<Chars(" ")>>,
            Chars("Work, work! Family with THE 2024 plan."))>>

WeekInputs == {<<>>, QuietWeek} \cup {BusyWeek(k) : k \in 1..3}

BusyMonth(m) == <<BusyWeek(3 * m - 2), BusyWeek(3 * m - 1), BusyWeek(3 * m)>>

MonthInputs ==
    {<<>>, <<QuietWeek>>, <<BusyWeek(1), QuietWeek>>,
     <<QuietWeek, BusyWeek(2)>>} \cup {BusyMonth(m) : m \in 1..3}

YearInputs ==
    {<<>>, <<BusyMonth(1), BusyMonth(2), BusyMonth(3)>>,
     << <<BusyWeek(1), QuietWeek>>, <<QuietWeek>> >>,
     << <<QuietWeek>>, <<BusyWeek(1), QuietWeek>>, BusyMonth(2) >>}

\* the stored weekly summaries of a list of weeks, the stored monthly
\* summaries of a list of months
WeeklySummariesOf(weeks) ==
    [i \in DOMAIN weeks |-> [insights |-> ruleBasedWeekly(weeks[i])]]

MonthlySummariesOf(months) ==
    [i \in DOMAIN months |->
        [insights |-> ruleBasedMonthly(WeeklySummariesOf(months[i]))]]

NumberLists ==
    {[i \in DOMAIN l |-> Number(l[i])] :
        l \in {<<>>, <<5, 5, 4>>, <<3, 5>>, <<1>>, <<2, 2, 3, 4, 5, 1, 1>>}}

ThemeLists ==
    {[i \in DOMAIN l |-> Chars(l[i])] :
        l \in {<<>>, <<"Work", "Work", "Family", "Family", "Travel">>,
               <<"Travel", "Work", "Travel", "Family", "Work", "Travel">>,
               <<"Work", "2024">>, <<"Work", "2024", "2024">>,
               <<"10", "7", "Work", "10">>, <<"Work", "007", "Plan">>,
               <<"Work", "Health", "7", "Work", "7", "Health", "2024">>}}

ComputeAverage(nums) == Called("average", <<nums>>, average(nums))

Consolidate(themes) ==
    Called("consolidateThemes", <<themes>>, consolidateThemes(themes))

AggregateWeek(dailyEntries) ==
    Called("ruleBasedWeekly", <<dailyEntries>>, ruleBasedWeekly(dailyEntries))

\* the second argument recorded is the data the summaries were made from
AggregateMonth(weeks) ==
    Called("ruleBasedMonthly", <<WeeklySummariesOf(weeks), weeks>>,
           ruleBasedMonthly(WeeklySummariesOf(weeks)))

AggregateYear(months) ==
    Called("ruleBasedYearly", <<MonthlySummariesOf(months), months>>,
           ruleBasedYearly(MonthlySummariesOf(months)))

\* the candidate periods the three scanners step through when the clock
\* reads now, in the order of their loops
ScanCandidates(now) ==
    Called("candidates", <<now>>,
           [weekly |-> [i \in 1..WeeklyLookback |-> WeeklyCandidate(now, i - 1)],
            monthly |-> [i \in 1..MonthlyLookback |-> MonthlyCandidate(now, i)],
            yearly |-> [k \in 1..YearlyLookback |->
                           YearStartStr(YearlyCandidate(now, k - 1))]])

\* the parent periods whose generators read a summary row as a source
ParentMonths == {<<y, m, 1>> : y \in 2024..2025, m \in 1..12}

ParentYears == 2023..2026

SourceKeys ==
    [weekly |-> {getWeekStartDate(d) : d \in WeekDates},
     monthly |-> PeriodKeys.monthly]

FindParents(type, key) ==
    LET row == [id |-> 1, type |-> type, start_date |-> key,
                end_date |-> GeneratorEnd(type, key)]
    IN  Called("sources", <<row>>,
               [months |-> {m \in ParentMonths :
                               row \in getWeeklySummariesForMonth({row}, m, tz)},
                years |-> {y \in ParentYears :
                              row \in YearMonthlySummaries(
                                          getSummaries({row}, "monthly"), y)}])

NextCalc ==
    \/ \E t \in Types : \E k \in PeriodKeys[t] : ComputeWindowEnd(t, k)
    \/ \E t \in DateTexts : ParseAndFormat(t)
    \/ \E d \in WeekDates : ComputeWeekStart(d)
    \/ \E nums \in NumberLists : ComputeAverage(nums)
    \/ \E themes \in ThemeLists : Consolidate(themes)
    \/ \E dailyEntries \in WeekInputs : AggregateWeek(dailyEntries)
    \/ \E weeks \in MonthInputs : AggregateMonth(weeks)
    \/ \E months \in YearInputs : AggregateYear(months)
    \/ \E now \in WeekDates : ScanCandidates(now)
    \/ \E t \in {"weekly", "monthly"} : \E k \in SourceKeys[t] : FindParents(t, k)

SpecCalc == Init /\ [][NextCalc]_vars

-----------------------------------------------------------------------------
(* Properties *)

SamePeriod(S, type, start) == {r \in S : r.type = type /\ r.start_date = start}

\* C1: with scanner passes run one at a time, among entry saves, deletes and
\* clock changes, the store never holds two Summary rows with the same
\* (type, start_date).
C1_OnePerPeriod ==
    \A r1 \in summaries, r2 \in summaries :
        (r1.type = r2.type /\ r1.start_date = r2.start_date) => r1.id = r2.id

\* two passes have run, an edit came between or during them, and the store
\* holds weekly, monthly and yearly rows
C1_Witness ==
    /\ env.passes >= 2
    /\ env.ops >= 1
    /\ \A p \in Callers : proc[p].pc = "idle"
    /\ {r.type : r \in summaries} = Types

\* C2: saveSummary adds a row for a period whatever rows the store already
\* holds for it: a caller that passed the existence check on its snapshot
\* is never turned away at the write, so two passes in flight leave two rows.
C2_SaveNeverDeduplicates ==
    [][\A p \in Callers :
          (proc[p].pc = "g_save" /\ proc'[p].pc # "g_save" /\ env' = env)
          => Cardinality(SamePeriod(summaries', proc[p].type, proc[p].key))
               = Cardinality(SamePeriod(summaries, proc[p].type, proc[p].key)) + 1]_vars

\* both passes passed the gate for the same period on their own snapshot and
\* the store holds two rows for it
C2_Witness ==
    \E g1 \in hist["home"].gates, g2 \in hist["screen"].gates :
        /\ g1.called /\ g2.called
        /\ g1.type = g2.type /\ g1.key = g2.key
        /\ hist["home"].call = "scan" /\ hist["screen"].call = "scan"
        /\ Cardinality(SamePeriod(summaries, g1.type, g1.key)) >= 2

\* C3: a pass that starts after a pass that ran to completion, with no store
\* failure, no edit, no clock change and no other invocation since that
\* earlier pass began, issues no saveSummary call.
C3_SecondPassWritesNothing ==
    \A p \in Callers :
        (hist[p].call = "scan" /\ hist[p].undisturbed /\ hist[p].cleanBefore >= 1)
        => hist[p].saveCalls = 0

\* the second pass has ended with nothing written, after a first pass that
\* generated weekly, monthly and yearly rows
C3_Witness ==
    \E p \in Callers :
        /\ hist[p].call = "scan" /\ hist[p].ended
        /\ hist[p].undisturbed /\ hist[p].cleanBefore >= 1
        /\ hist[p].scans = Types
        /\ {r.type : r \in summaries} = Types

\* C4: for a candidate with no existing summary, the scanner calls the
\* generator if and only if the rows fetched number at least 3 (weekly),
\* 2 (monthly), 6 (yearly).
C4_ThresholdGating ==
    \A p \in Callers : \A g \in hist[p].gates :
        g.called <=> g.count >= (IF g.type = "weekly" THEN 3
                                 ELSE IF g.type = "monthly" THEN 2 ELSE 6)

\* one pass met a week of 2 entries, which it left alone, and a week of 3
\* entries, for which it has called the generator and saved a row
C4_Witness ==
    \E p \in Callers : \E g2 \in hist[p].gates, g3 \in hist[p].gates :
        /\ g2.type = "weekly" /\ g2.count = 2 /\ ~g2.called
        /\ g3.type = "weekly" /\ g3.count = 3 /\ g3.called
        /\ SamePeriod(summaries, "weekly", g3.key) # {}
        /\ SamePeriod(summaries, "weekly", g2.key) = {}

\* C5: a generator whose source fetch returns no rows returns null: it issues
\* no saveSummary, does not run the aggregator, raises no error and leaves
\* both tables as they were.
C5_EmptySourceReturnsNull ==
    [][\A p \in Callers :
          (/\ proc[p].pc = "g_fetch" /\ proc'[p] # proc[p] /\ env' = env
           /\ GeneratorSources(proc[p].type, proc[p].key) = {})
          => /\ summaries' = summaries /\ entries' = entries /\ nextId' = nextId
             /\ proc'[p].pc # "g_save"
             /\ hist'[p].saveCalls = hist[p].saveCalls
             /\ hist'[p].failedIn = "none"
             /\ proc[p].call = "force"
                  => /\ hist'[p].force.result = "null"
                     /\ hist'[p].gen.result = "null"
                     /\ ~hist'[p].gen.aggregated
                     /\ hist'[p].gen.saveCalls = 0]_vars

\* a forced generation found no source rows and returned null
C5_Witness ==
    \E p \in Callers :
        /\ hist[p].force.result = "null"
        /\ hist[p].gen.fetched = 0
        /\ hist[p].force.storeCalls = 1

\* the date argument is no period key of the type: not YYYY-MM-DD (nor, for
\* yearly, YYYY), or no calendar date
InvalidPeriodKey(type, date) ==
    IF type = "yearly" THEN ~(Len(date) = 1 \/ ParseOk(date)) ELSE ~ParseOk(date)

\* C6: forceSummaryGeneration called with an invalid period key raises an
\* error before any store call is issued.
C6_InvalidKeyFailsFast ==
    \A p \in Callers :
        (hist[p].call = "force"
           /\ InvalidPeriodKey(hist[p].force.type, hist[p].force.input))
        => (hist[p].force.result = "error" /\ hist[p].force.storeCalls = 0)

\* C7: in a pass whose weekly scan failed, the monthly and yearly scans have
\* run by the time the pass ends; after a failed monthly scan, the yearly one.
C7_ScansIsolated ==
    \A p \in Callers :
        (hist[p].call = "scan" /\ hist[p].ended)
        => /\ hist[p].failedIn = "weekly" => {"monthly", "yearly"} \subseteq hist[p].scans
           /\ hist[p].failedIn = "monthly" => "yearly" \in hist[p].scans

Lookback(type) ==
    IF type = "weekly" THEN WeeklyLookback
    ELSE IF type = "monthly" THEN MonthlyLookback ELSE YearlyLookback

\* C8: in a scan in which the generation for one candidate failed, every
\* candidate of that scan has been examined by the time the pass ends.
C8_PeriodsIsolated ==
    \A p \in Callers :
        (hist[p].call = "scan" /\ hist[p].ended
           /\ hist[p].failedPc \in {"g_fetch", "g_save"})
        => Cardinality({e \in hist[p].examined : e[1] = hist[p].failedIn})
             = Lookback(hist[p].failedIn)

\* C9: a store call that fails inside a generator ends that invocation with
\* the error, which reaches the generator's caller; one invocation issues
\* its source fetch and saveSummary at most once each.
C9_ErrorPropagatesNoRetry ==
    \A p \in Callers :
        /\ hist[p].gen.failed
             => /\ hist[p].gen.result = "error"
                /\ hist[p].ended
                /\ hist[p].call = "scan" => hist[p].failedIn = hist[p].gen.type
        /\ hist[p].gen.fetches <= 1
        /\ hist[p].gen.saveCalls <= 1

\* saveSummary failed inside a generator, after its one source fetch
C9_Witness ==
    \E p \in Callers :
        /\ hist[p].gen.failed /\ hist[p].gen.result = "error"
        /\ hist[p].gen.fetches = 1 /\ hist[p].gen.saveCalls = 1
        /\ hist[p].failedPc = "g_save"

\* the start_date is canonical for the type
CanonicalStart(r) ==
    /\ ParseOk(r.start_date)
    /\ r.type = "weekly" => GetDay(parseLocalISODate(r.start_date)) = 1
    /\ r.type = "monthly" => r.start_date[3] = 1
    /\ r.type = "yearly" => (r.start_date[2] = 1 /\ r.start_date[3] = 1)

\* C10: every persisted row, scanned or forced, has a canonical
\* start_date: a Monday, a first of month, a January 1.
C10_CanonicalKeys == \A r \in summaries : CanonicalStart(r)

\* C11: in every timezone, the entries a weekly generator fetches for
\* aggregation are exactly the stored entries dated from the start_date to
\* the end_date it records, start_date + 6 days.
C11_WeeklyDerivationSet ==
    \A p \in Callers :
        (proc[p].pc = "g_fetch" /\ proc[p].type = "weekly")
        => GeneratorSources("weekly", proc[p].key)
             = {d \in entries : /\ StrLeq(proc[p].key, d)
                                /\ StrLeq(d, GeneratorEnd("weekly", proc[p].key))}

\* C12: in every timezone, the weekly summaries a monthly generator fetches
\* for aggregation are exactly the stored weekly rows that start on or after
\* the month's first day and end on or before the end_date it records, the
\* month's last calendar day.
C12_MonthlyDerivationSet ==
    \A p \in Callers :
        (proc[p].pc = "g_fetch" /\ proc[p].type = "monthly")
        => GeneratorSources("monthly", proc[p].key)
             = {r \in WeeklyRows(summaries) :
                   /\ StrLeq(proc[p].key, r.start_date)
                   /\ StrLeq(r.end_date, GeneratorEnd("monthly", proc[p].key))}

\* C13: a step of a scanner pass or of a generator never changes table
\* daily_entries and never removes or changes a stored Summary row; the
\* only change it makes to the store is the insertion of one new Summary row.
C13_PipelineOnlyInserts ==
    [][(env'.ops = env.ops /\ today' = today)
          => /\ entries' = entries
             /\ summaries \subseteq summaries'
             /\ Cardinality(summaries') <= Cardinality(summaries) + 1
             /\ \A r \in summaries' \ summaries : r.id = nextId]_vars

\* a pass has run to its end and saved rows; the entries and the monthly
\* summaries that were there before are all as they were
C13_Witness ==
    \E p \in Callers :
        /\ hist[p].call = "scan" /\ hist[p].ended /\ hist[p].saveCalls >= 2
        /\ env.ops = 0
        /\ entries = EntryDates
        /\ PriorMonthlies \subseteq summaries

\* C14: the end_date a generator computes is the last day of the period:
\* the sixth day after the start for a week, also across a month or year
\* boundary; the last calendar day of the month (29 for February of a leap
\* year, 28 otherwise, 30 or 31 for other months); December 31 for a year.
\* It is never before the start_date.
C14_WindowEnd ==
    calc.op = "GeneratorEnd"
    => LET type == calc.args[1]
           key == calc.args[2]
           end == calc.result
       IN  /\ ParseOk(end)
           /\ StrLeq(key, end)
           /\ type = "weekly" => parseLocalISODate(end) = parseLocalISODate(key) + 6
           /\ type = "monthly"
                => /\ end[1] = key[1] /\ end[2] = key[2]
                   /\ end[3] = (IF key[2] = 2
                                THEN (IF key[1] % 4 = 0 /\ (key[1] % 100 # 0 \/ key[1] % 400 = 0)
                                      THEN 29 ELSE 28)
                                ELSE IF key[2] \in {4, 6, 9, 11} THEN 30 ELSE 31)
           /\ type = "yearly" => end = <<key[1], 12, 31>>

\* the week of 2024-12-30 ends in the next year, on 2025-01-05
C14_Witness ==
    /\ calc.op = "GeneratorEnd"
    /\ calc.args = <<"weekly", <<2024, 12, 30>>>>
    /\ calc.result = <<2025, 1, 5>>

\* the fields are a date of the calendar
RealDate(f) == f[2] \in 1..12 /\ f[3] \in 1..31 /\ f[3] <= DaysInMonth(f[1], f[2])

C16_MondayInvariant ==
    calc.op = "getWeekStartDate"
    => /\ ParseOk(calc.result)
       /\ GetDay(parseLocalISODate(calc.result)) = 1
       /\ parseLocalISODate(calc.result) <= calc.args[1]
       /\ parseLocalISODate(calc.result) >= calc.args[1] - 6
       /\ getWeekStartDate(parseLocalISODate(calc.result)) = calc.result

\* the week of Sunday 2025-01-05 starts in the year before, on 2024-12-30
C16_Witness ==
    /\ calc.op = "getWeekStartDate"
    /\ calc.args[1] = NewDate(2025, 0, 5)
    /\ calc.result = <<2024, 12, 30>>

\* C17: the three trends of a non-empty week are the sum of the entries'
\* ratings divided by the number of entries (ratings 5, 5, 4 give 14/3, shown
\* as 4.7); the trends of a month are the sum of its weekly summaries' trends
\* divided by the number of weekly summaries, and the trends of a year the
\* sum of its monthly summaries' trends divided by their number, whatever
\* the number of entries behind each summary
RatingFields == {"productivity", "mood", "energy"}

TrendOf(field) ==
    CASE field = "productivity" -> "productivity_trend"
      [] field = "mood" -> "mood_trend"
      [] field = "energy" -> "energy_trend"

RECURSIVE RatingTotal(_, _)
RatingTotal(dailyEntries, field) ==
    IF dailyEntries = <<>> THEN 0
    ELSE Head(dailyEntries).ratings[field]
             + RatingTotal(Tail(dailyEntries), field)

RECURSIVE TrendTotal(_, _)
TrendTotal(rows, field) ==
    IF rows = <<>> THEN Number(0)
    ELSE Plus(Head(rows).insights[TrendOf(field)],
              TrendTotal(Tail(rows), field))

\* n times a equals total
IsMeanOf(a, total, n) == a[1] * n * total[2] = total[1] * a[2]

C17_TrendsAreMeans ==
    /\ calc.op = "ruleBasedWeekly" /\ calc.args[1] # <<>> =>
          /\ \A f \in RatingFields :
                 IsMeanOf(calc.result[TrendOf(f)],
                          Number(RatingTotal(calc.args[1], f)),
                          Len(calc.args[1]))
          /\ RatingTotal(calc.args[1], "productivity") = 14
                  /\ Len(calc.args[1]) = 3
                 => /\ SameNumber(calc.result.productivity_trend, <<14, 3>>)
                    /\ toFixed1(calc.result.productivity_trend) = 47
    /\ calc.op \in {"ruleBasedMonthly", "ruleBasedYearly"}
            /\ calc.args[1] # <<>> =>
          \A f \in RatingFields :
              IsMeanOf(calc.result[TrendOf(f)], TrendTotal(calc.args[1], f),
                       Len(calc.args[1]))
    /\ calc.op = "average" /\ calc.args[1] # <<>> =>
          IsMeanOf(calc.result, Reduce(calc.args[1]), Len(calc.args[1]))

\* a month of a three-entry week and a one-entry week: the monthly trend is
\* the mean of 14/3 and 2, which is not the mean 4 of the four entries
C17_Witness ==
    /\ calc.op = "ruleBasedMonthly"
    /\ Len(calc.args[1]) = 2
    /\ SameNumber(calc.args[1][1].insights.productivity_trend, <<14, 3>>)
    /\ toFixed1(calc.args[1][1].insights.productivity_trend) = 47
    /\ SameNumber(calc.args[1][2].insights.productivity_trend, Number(2))
    /\ SameNumber(calc.result.productivity_trend, <<10, 3>>)
    /\ RatingTotal(Flat(calc.args[2]), "productivity") = 16
    /\ Len(Flat(calc.args[2])) = 4

\* C18: consolidateThemes returns every distinct theme of its argument exactly
\* once, a more frequent theme before a less frequent one, and of two themes
\* with the same frequency the one that occurs first in the argument first,
\* for themes made only of digits as for any other
FirstIndex(themes, t) ==
    CHOOSE i \in DOMAIN themes :
        themes[i] = t /\ \A j \in 1..(i - 1) : themes[j] # t

RankedBefore(themes, a, b) ==
    \/ Frequency(themes, a) > Frequency(themes, b)
    \/ /\ Frequency(themes, a) = Frequency(themes, b)
       /\ FirstIndex(themes, a) < FirstIndex(themes, b)

C18_ThemeRanking ==
    calc.op = "consolidateThemes" =>
        /\ {calc.result[i] : i \in DOMAIN calc.result}
               = {calc.args[1][i] : i \in DOMAIN calc.args[1]}
        /\ \A i, j \in DOMAIN calc.result :
               i < j => /\ calc.result[i] # calc.result[j]
                        /\ RankedBefore(calc.args[1], calc.result[i],
                                        calc.result[j])

\* C19: each of the three aggregators, given an empty list of sources, returns
\* insights whose three trends are the number 0 and whose key_themes,
\* top_accomplishments and main_learnings are empty; the average of an empty
\* list is the number 0
IsZero(a) == a[1] = 0 /\ a[2] > 0

C19_EmptyAggregation ==
    /\ calc.op \in {"ruleBasedWeekly", "ruleBasedMonthly", "ruleBasedYearly"}
            /\ calc.args[1] = <<>> =>
          /\ IsZero(calc.result.productivity_trend)
          /\ IsZero(calc.result.mood_trend)
          /\ IsZero(calc.result.energy_trend)
          /\ calc.result.key_themes = <<>>
          /\ calc.result.top_accomplishments = <<>>
          /\ calc.result.main_learnings = <<>>
    /\ calc.op = "average" /\ calc.args[1] = <<>> => IsZero(calc.result)

C19_Witness ==
    /\ calc.op = "ruleBasedYearly"
    /\ calc.args[1] = <<>>
    /\ IsZero(calc.result.mood_trend)
    /\ calc.result.key_themes = <<>>

\* C20: top_accomplishments and main_learnings of a summary are the first
\* items of the concatenation of the sources' lists, sources in the order
\* given and items in the order within a source, with blank and
\* whitespace-only items removed for a weekly summary: at most 5 items for a
\* weekly, 10 for a monthly and 20 for a yearly summary, in the same order
\* and each as often as in the concatenation; key_themes has at most 8, 10
\* and 8 items
IsBlank(s) == \A i \in DOMAIN s : s[i] = " "

NotBlank(s) == ~IsBlank(s)

\* the concatenated lists the summary is cut from
SourceItems(op, sources, field) ==
    IF op = "ruleBasedWeekly"
    THEN SelectSeq(Flat([i \in DOMAIN sources |-> sources[i][field]]),
                   NotBlank)
    ELSE Flat([i \in DOMAIN sources |-> sources[i].insights[field]])

ItemLimit(op) ==
    CASE op = "ruleBasedWeekly" -> 5
      [] op = "ruleBasedMonthly" -> 10
      [] op = "ruleBasedYearly" -> 20

ThemeLimit(op) ==
    CASE op = "ruleBasedWeekly" -> 8
      [] op = "ruleBasedMonthly" -> 10
      [] op = "ruleBasedYearly" -> 8

IsPrefixCutTo(list, all, n) ==
    /\ Len(list) = IF Len(all) < n THEN Len(all) ELSE n
    /\ \A i \in DOMAIN list : list[i] = all[i]

C20_FirstComeTruncation ==
    calc.op \in {"ruleBasedWeekly", "ruleBasedMonthly", "ruleBasedYearly"} =>
        /\ IsPrefixCutTo(calc.result.top_accomplishments,
                         SourceItems(calc.op, calc.args[1],
                                     IF calc.op = "ruleBasedWeekly"
                                     THEN "accomplishments"
                                     ELSE "top_accomplishments"),
                         ItemLimit(calc.op))
        /\ IsPrefixCutTo(calc.result.main_learnings,
                         SourceItems(calc.op, calc.args[1],
                                     IF calc.op = "ruleBasedWeekly"
                                     THEN "things_learned"
                                     ELSE "main_learnings"),
                         ItemLimit(calc.op))
        /\ Len(calc.result.key_themes) <= ThemeLimit(calc.op)

\* a year whose months bring more than 20 accomplishments and more than 8
\* themes, made from weeks with blank items and more than 5 accomplishments
C20_Witness ==
    /\ calc.op = "ruleBasedYearly"
    /\ Len(SourceItems(calc.op, calc.args[1], "top_accomplishments")) > 20
    /\ Len(calc.result.top_accomplishments) = 20
    /\ Len(calc.result.main_learnings) = 20
    /\ Len(InsightItems(calc.args[1], "key_themes")) > 8
    /\ Len(calc.result.key_themes) = 8
    /\ \E e \in DOMAIN calc.args[2][1][1] :
           \E i \in DOMAIN calc.args[2][1][1][e].accomplishments :
               IsBlank(calc.args[2][1][1][e].accomplishments[i])
    /\ Len(SourceItems("ruleBasedWeekly", calc.args[2][1][1],
                       "accomplishments")) > 5
    /\ Len(calc.args[1][1].insights.top_accomplishments) = 10

\* C22: every saveSummary that returns adds exactly one row, with an id no
\* stored row has, and leaves every stored row as it was, also when a row of
\* the same type and start_date is stored; a forced generation whose source
\* fetch returns rows goes on to saveSummary without looking for an existing
\* row and raises the number of rows of its type by exactly one, so that
\* forcing a period the scanner has summarized leaves two rows for it.
RowsOfType(S, type) == Cardinality(getSummaries(S, type))

C22_InsertOnlyPersistence ==
    [][\A p \in Callers :
          /\ (proc[p].pc = "g_save" /\ proc'[p] # proc[p] /\ env' = env)
               => /\ \E r \in summaries' \ summaries :
                         /\ summaries' = summaries \cup {r}
                         /\ \A q \in summaries : q.id # r.id
                         /\ r.type = proc[p].type
                         /\ r.start_date = proc[p].key
                  /\ RowsOfType(summaries', proc[p].type)
                         = RowsOfType(summaries, proc[p].type) + 1
          /\ (proc[p].pc = "g_fetch" /\ proc[p].call = "force"
                 /\ proc'[p] # proc[p] /\ env' = env
                 /\ GeneratorSources(proc[p].type, proc[p].key) # {})
               => proc'[p].pc = "g_save"]_vars

\* the store holds a row saved by a scanner pass and a row saved by a forced
\* generation for the same period
C22_Witness ==
    \E r1, r2 \in summaries :
        /\ r1.type = r2.type /\ r1.start_date = r2.start_date
        /\ r1.id \in log.forcedIds
        /\ r2.id \notin log.forcedIds
        /\ r2 \notin PriorMonthlies

\* C24: with the clock at day T, the weekly scan examines exactly the Mondays
\* of the 4 calendar weeks before the week that contains T, four different
\* ones, each with its Sunday before T, whatever the weekday of T; the
\* monthly scan examines exactly the first days of the 3 months before the
\* month of T, also across a year boundary; the yearly scan examines exactly
\* January 1 of the 2 years before the year of T.  No candidate is the
\* week, month or year that contains T.
MondayOfWeek(day) == day - ((GetDay(day) + 6) % 7)

MonthNumber(day) == GetFullYear(day) * 12 + GetMonth(day)

FirstOfMonthNumber(n) == <<n \div 12, (n % 12) + 1, 1>>

Members(list) == {list[i] : i \in DOMAIN list}

C24_LookbackWindows ==
    calc.op = "candidates" =>
        /\ \A i \in DOMAIN calc.result.weekly : ParseOk(calc.result.weekly[i])
        /\ {parseLocalISODate(w) : w \in Members(calc.result.weekly)}
               = {MondayOfWeek(calc.args[1]) - 7 * n : n \in 1..4}
        /\ Cardinality(Members(calc.result.weekly)) = 4
        /\ \A w \in Members(calc.result.weekly) :
               parseLocalISODate(w) + 6 < calc.args[1]
        /\ Members(calc.result.monthly)
               = {FirstOfMonthNumber(MonthNumber(calc.args[1]) - n) : n \in 1..3}
        /\ Members(calc.result.yearly)
               = {<<GetFullYear(calc.args[1]) - n, 1, 1>> : n \in 1..2}

\* on Sunday 2025-01-05 the weekly candidates start with the week of
\* 2024-12-23, not the week of 2024-12-30 that ends that day; the months are
\* December, November and October 2024
C24_Witness ==
    /\ calc.op = "candidates"
    /\ calc.args[1] = NewDate(2025, 0, 5)
    /\ calc.result.weekly[1] = <<2024, 12, 23>>
    /\ calc.result.weekly[4] = <<2024, 12, 2>>
    /\ calc.result.monthly = <<(<<2024, 12, 1>>), <<2024, 11, 1>>, <<2024, 10, 1>>>>
    /\ calc.result.yearly = <<(<<2023, 1, 1>>), <<2024, 1, 1>>>>

\* C25: when every store call returns, a pass ends, having examined exactly
\* 4 weekly, then 3 monthly, then 2 yearly candidates; each candidate is
\* either skipped or handed to the generator, and to the generator at most
\* once.
ExaminedOf(h, type) == Cardinality({e \in h.examined : e[1] = type})

GatesOf(h, type, key) == {g \in h.gates : g.type = type /\ g.key = key}

PassInOrder(p) ==
    /\ (proc[p].call = "scan" /\ proc[p].type = "weekly")
         => ExaminedOf(hist[p], "monthly") = 0 /\ ExaminedOf(hist[p], "yearly") = 0
    /\ (proc[p].call = "scan" /\ proc[p].type = "monthly")
         => /\ ExaminedOf(hist[p], "weekly") = WeeklyLookback
            /\ ExaminedOf(hist[p], "yearly") = 0
    /\ (proc[p].call = "scan" /\ proc[p].type = "yearly")
         => /\ ExaminedOf(hist[p], "weekly") = WeeklyLookback
            /\ ExaminedOf(hist[p], "monthly") = MonthlyLookback

PassComplete(p) ==
    (hist[p].call = "scan" /\ hist[p].ended)
    => /\ ExaminedOf(hist[p], "weekly") = 4
       /\ ExaminedOf(hist[p], "monthly") = 3
       /\ ExaminedOf(hist[p], "yearly") = 2
       /\ hist[p].failedIn = "none"

OneOutcomeEach(p) ==
    /\ \A g \in hist[p].gates : <<g.type, g.key>> \in hist[p].examined
    /\ \A e \in hist[p].examined :
           Cardinality(GatesOf(hist[p], e[1], e[2])) <= 1
    /\ hist[p].saveCalls <= Cardinality({g \in hist[p].gates : g.called})

C25_ScanTerminates ==
    /\ [](\A p \in Callers :
              PassInOrder(p) /\ PassComplete(p) /\ OneOutcomeEach(p))
    /\ \A p \in Callers :
           (proc[p].call = "scan") ~> (proc[p].pc = "idle" /\ hist[p].ended)

\* a pass has ended after 9 candidates, of which it generated some and
\* skipped the others
C25_Witness ==
    \E p \in Callers :
        /\ hist[p].call = "scan" /\ hist[p].ended /\ proc[p].pc = "idle"
        /\ Cardinality(hist[p].examined) = 9
        /\ hist[p].saveCalls >= 2
        /\ \E g \in hist[p].gates : ~g.called

\* C27: in a pass, the monthly scan's count for a month includes every
\* weekly summary the weekly scan of the same pass generated for a week
\* inside that month, and the yearly scan's count for a year includes every
\* monthly summary the monthly scan of the same pass generated for a month
\* of that year; a pass that follows a complete pass over an unchanged store
\* on the same day saves nothing.
WeekInsideMonth(week, month) ==
    /\ parseLocalISODate(month) <= parseLocalISODate(week)
    /\ parseLocalISODate(week) + 6 <= NewDate(month[1], month[2], 0)

GeneratedInPass(h, type) == {g \in h.gates : g.type = type /\ g.called}

C27_CascadeWithinPass ==
    \A p \in Callers :
        /\ \A g \in hist[p].gates :
               /\ g.type = "monthly"
                    => g.count >= Cardinality(
                           {w \in GeneratedInPass(hist[p], "weekly") :
                               WeekInsideMonth(w.key, g.key)})
               /\ g.type = "yearly"
                    => g.count >= Cardinality(
                           {m \in GeneratedInPass(hist[p], "monthly") :
                               m.key[1] = g.key[1]})
        /\ (hist[p].call = "scan" /\ hist[p].undisturbed
               /\ hist[p].cleanBefore >= 1)
             => hist[p].saveCalls = 0

\* C28: every summary a scanner pass saves was aggregated from at least
\* the threshold number of source rows (3 entries, 2 weekly summaries,
\* 6 monthly summaries) read by the generator's own fetch, also when entries
\* or summaries are deleted while the pass is suspended.
C28_PersistedMeetsThreshold ==
    \A p \in Callers :
        (hist[p].call = "scan" /\ hist[p].gen.result = "summary")
            => MeetsThreshold(hist[p].gen.type, hist[p].gen.fetched)

\* C29: whenever a scanner pass decides to generate a monthly summary, the
\* store holds weekly summaries for at least 2 distinct weeks inside that
\* month, and whenever it decides to generate a yearly summary, the store
\* holds monthly summaries for at least 6 distinct months inside that year.
PeriodsInside(S, type, first, last) ==
    {r.start_date : r \in {x \in getSummaries(S, type) :
        /\ first <= parseLocalISODate(x.start_date)
        /\ parseLocalISODate(x.end_date) <= last}}

DistinctSources(S, g) ==
    IF g.type = "monthly"
    THEN PeriodsInside(S, "weekly", parseLocalISODate(g.key),
                       NewDate(g.key[1], g.key[2], 0))
    ELSE PeriodsInside(S, "monthly", NewDate(g.key[1], 0, 1),
                       NewDate(g.key[1], 11, 31))

C29_GateCountsDistinctPeriods ==
    [][\A p \in Callers :
          \A g \in hist'[p].gates \ hist[p].gates :
              (hist'[p].call = "scan" /\ g.called /\ g.type # "weekly")
                  => MeetsThreshold(g.type,
                                    Cardinality(DistinctSources(summaries, g)))]_vars

\* C30: a weekly summary is a source of at most one month, and of none when
\* its week runs over a month boundary; a monthly summary with canonical
\* dates is a source of exactly its own year; no row is a source of two
\* parent periods.
Straddles(row) == row.start_date[2] # row.end_date[2]

C30_SingleParent ==
    calc.op = "sources" =>
        /\ Cardinality(calc.result.months) + Cardinality(calc.result.years) <= 1
        /\ calc.args[1].type = "weekly" =>
               /\ calc.result.years = {}
               /\ calc.result.months \subseteq
                      {<<calc.args[1].start_date[1], calc.args[1].start_date[2], 1>>}
               /\ Straddles(calc.args[1]) => calc.result.months = {}
        /\ calc.args[1].type = "monthly" =>
               /\ calc.result.months = {}
               /\ calc.result.years = {calc.args[1].start_date[1]}

C30_Witness ==
    /\ calc.op = "sources"
    /\ tz = 0
    /\ calc.args[1].type = "weekly"
    /\ calc.args[1].start_date = <<2024, 12, 23>>
    /\ calc.result.months = {<<2024, 12, 1>>}

\* C21: the three outcomes of a forced generation (a summary was saved,
\* null for want of source rows, an error was thrown) are shown to the user
\* in three different ways, and the null outcome is shown neither as the
\* failure alert nor as 'Summary generated successfully!'.
ForceOutcomes == {"summary", "null", "error"}

C21_NullIsDistinguished ==
    \A p \in Callers :
        (hist[p].call = "force" /\ hist[p].ended) =>
            /\ \A other \in ForceOutcomes \ {hist[p].force.result} :
                   handleForceGenerateAlert(hist[p].force.result)
                       # handleForceGenerateAlert(other)
            /\ hist[p].force.result = "null" =>
                   handleForceGenerateAlert(hist[p].force.result).message
                       # "Summary generated successfully!"

\* C23: whatever the interleaving of saveDailyEntry calls on the shared
\* connection and wherever a statement fails or the process dies, the
\* committed items of the entry are the complete item list of one of the
\* calls or the complete previous set, and the ROLLBACK of a failing
\* saveItemsBatch call undoes only a transaction that call began.
Range(list) == {list[i] : i \in 1..Len(list)}

Stored(d) == IF d.inTransaction THEN d.undo ELSE d.items

CompleteSets(calls) ==
    {PreviousItems} \cup {Range(calls[c].items) : c \in {x \in Callers : calls[x].save # "idle"}}

C23_AllOrNothingItems ==
    [][/\ Stored(db') \in CompleteSets(svc')
       /\ \A c \in Callers :
             (svc[c].save = "ROLLBACK" /\ svc'[c].save = "failed" /\ db.inTransaction)
                 => db.owner = c]_vars

\* C26: in one open/close cycle the database is opened at most once and the
\* tables are created at most once, whether initialize() calls follow each
\* other or overlap, and a call that has returned finds the handle open, the
\* tables created and the service marked initialized.
C26_InitializeOnce ==
    /\ db.opens <= 1
    /\ db.creates <= 1
    /\ \A c \in Callers :
          svc[c].init = "returned"
              => (db.handle = "open" /\ db.tables /\ db.isInitialized)

====
